---- MODULE Spec2Model ----
(***************************************************************************)
(* A model of the diceware passphrase engine (src/src/lib.rs).             *)
(*                                                                         *)
(* A Rust String is a sequence of one-character strings, so that splitting,*)
(* parsing, capitalizing and joining are computed character by character.  *)
(* An Option is a record with a field some, and val when some is TRUE.     *)
(***************************************************************************)
EXTENDS Integers, Sequences, FiniteSets, TLC

VARIABLES
    builder,   \* the Passphraser: [length, wordlist, preset]
    pc,        \* "idle" | "generate" (builder); "called" | "returned" | "panicked" (a single call)
    run,       \* generate: number of rolls drawn and folded so far
    acc,       \* generate: the accumulator of passphrase's fold
    kept,      \* Option<Passphrase>: the first Passphrase generate returned to the caller
    out,       \* Option<[preset, text]>: the last string format / format_with returned
    call,      \* a single call of a free function or method: its name and arguments
    ret        \* Option: the value that call returned

vars == <<builder, pc, run, acc, kept, out, call, ret>>

----------------------------------------------------------------------------
(* Bounds of the model. *)

MaxLength == 1      \* largest word count asked of the builder
MaxDigits == 4      \* longest digit sequence given to to_index
MaxLineLen == 5     \* longest wordlist line given to the line parser
MaxRuns == 2        \* largest runs / rolls argument of roll_dice
MaxFace == 2        \* largest start / end argument of roll_dice
MaxLines == 2       \* longest wordlist given to passphrase
MaxWords == 2       \* longest word sequence given to the formatter

----------------------------------------------------------------------------
(* Option<T> *)

None == [some |-> FALSE]
Some(v) == [some |-> TRUE, val |-> v]

----------------------------------------------------------------------------
(* Characters. *)

Digits == <<"0", "1", "2", "3", "4", "5", "6", "7", "8", "9">>

is_ascii_digit(c) == \E i \in 1..10 : Digits[i] = c

to_digit(c) == (CHOOSE i \in 1..10 : Digits[i] = c) - 1

\* u8::is_ascii_whitespace: space, tab, line feed, form feed, carriage return.
is_ascii_whitespace(c) == c \in {" ", "\t", "\n", "\f", "\r"}

\* char::to_uppercase on the characters the model uses: a lowercase ASCII
\* letter maps to its capital, every other character to itself.
Lower == <<"a", "b", "z">>
Upper == <<"A", "B", "Z">>

to_uppercase(c) ==
    IF \E i \in 1..Len(Lower) : Lower[i] = c
    THEN <<Upper[CHOOSE i \in 1..Len(Lower) : Lower[i] = c]>>
    ELSE <<c>>

----------------------------------------------------------------------------
(* lib.rs: to_components, to_pair, to_index, to_capitalized *)

RECURSIVE split_ascii_whitespace(_, _, _)
split_ascii_whitespace(line, token, tokens) ==
    IF line = <<>>
    THEN IF token = <<>> THEN tokens ELSE Append(tokens, token)
    ELSE IF is_ascii_whitespace(Head(line))
         THEN split_ascii_whitespace(Tail(line), <<>>,
                  IF token = <<>> THEN tokens ELSE Append(tokens, token))
         ELSE split_ascii_whitespace(Tail(line), Append(token, Head(line)), tokens)

to_components(line) == split_ascii_whitespace(line, <<>>, <<>>)

RECURSIVE parse_digits(_, _)
parse_digits(digits, result) ==
    IF digits = <<>> THEN Some(result)
    ELSE IF is_ascii_digit(Head(digits))
         THEN parse_digits(Tail(digits), result * 10 + to_digit(Head(digits)))
         ELSE None

\* str::parse::<usize>: Err on the empty string, on a lone sign and on any
\* non-digit; one leading "+" is accepted, a leading "-" is not (unsigned).
\* Tokens of the model are far shorter than usize::MAX, so PosOverflow is
\* out of reach.
parse_usize(src) ==
    IF src = <<>> THEN None
    ELSE IF Head(src) \in {"+", "-"} /\ Tail(src) = <<>> THEN None
    ELSE IF Head(src) = "+" THEN parse_digits(Tail(src), 0)
    ELSE parse_digits(src, 0)

to_pair_first_only(components) ==
    IF Len(components) >= 1
    THEN LET index == parse_usize(components[1])
         IN  IF index.some
             THEN Some(<<index.val, IF Len(components) >= 2 THEN components[2] ELSE <<>>>>)
             ELSE None
    ELSE None

\* The two next() calls take the first two components; later ones are never read.
to_pair(components) ==
    IF Len(components) >= 2
    THEN LET index == parse_usize(components[1])
         IN  IF index.some THEN Some(<<index.val, components[2]>>) ELSE None
    ELSE None

RECURSIVE fold_index(_, _)
fold_index(ns, acc0) ==
    IF ns = <<>> THEN acc0 ELSE fold_index(Tail(ns), acc0 * 10 + Head(ns))

to_index_reversed(ns) ==
    LET RECURSIVE rfold(_, _)
        rfold(s, a) == IF s = <<>> THEN a ELSE rfold(SubSeq(s, 1, Len(s) - 1), a * 10 + s[Len(s)])
    IN  rfold(ns, 0)

to_index(ns) == fold_index(ns, 0)

to_capitalized(s) ==
    IF s = <<>> THEN <<>> ELSE to_uppercase(Head(s)) \o Tail(s)

----------------------------------------------------------------------------
(* lib.rs: Preset, Passphrase::format / format_with / format_using *)

PascalCase == [kind |-> "PascalCase"]
KebabCase == [kind |-> "KebabCase"]
SnakeCase == [kind |-> "SnakeCase"]
Default == [kind |-> "Default"]
Arbitrary(capitalize, delimiter) ==
    [kind |-> "Arbitrary", capitalize |-> capitalize, delimiter |-> delimiter]

DELIM_DEFAULT == <<" ">>
DELIM_KEBABCASE == <<"-">>
DELIM_PASCALCASE == <<>>
DELIM_SNAKECASE == <<"_">>

\* [String]::join
RECURSIVE join(_, _)
join(words, delimiter) ==
    IF words = <<>> THEN <<>>
    ELSE IF Tail(words) = <<>> THEN Head(words)
    ELSE Head(words) \o delimiter \o join(Tail(words), delimiter)

format_using(words, delimiter, capitalize) ==
    LET mapped == IF capitalize
                  THEN [i \in 1..Len(words) |-> to_capitalized(words[i])]
                  ELSE words
    IN  join(mapped, delimiter)

format_with_swapped(self, preset) ==
    CASE preset.kind = "PascalCase" -> format_using(self.words, DELIM_PASCALCASE, TRUE)
      [] preset.kind = "KebabCase" -> format_using(self.words, DELIM_SNAKECASE, FALSE)
      [] preset.kind = "SnakeCase" -> format_using(self.words, DELIM_KEBABCASE, FALSE)
      [] preset.kind = "Arbitrary" ->
            format_using(self.words,
                         IF preset.delimiter.some THEN preset.delimiter.val ELSE DELIM_DEFAULT,
                         preset.capitalize)
      [] preset.kind = "Default" -> format_using(self.words, DELIM_DEFAULT, FALSE)

format_with(self, preset) ==
    CASE preset.kind = "PascalCase" -> format_using(self.words, DELIM_PASCALCASE, TRUE)
      [] preset.kind = "KebabCase" -> format_using(self.words, DELIM_KEBABCASE, FALSE)
      [] preset.kind = "SnakeCase" -> format_using(self.words, DELIM_SNAKECASE, FALSE)
      [] preset.kind = "Arbitrary" ->
            format_using(self.words,
                         IF preset.delimiter.some THEN preset.delimiter.val ELSE DELIM_DEFAULT,
                         preset.capitalize)
      [] preset.kind = "Default" -> format_using(self.words, DELIM_DEFAULT, FALSE)

format(self) == format_with(self, self.preset)

----------------------------------------------------------------------------
(* lib.rs: roll_dice *)

gen_range_inclusive(start, end) == start..end

\* Rng::gen_range(start..end): one value of the half-open range. It panics
\* ("cannot sample empty range") when the range is empty.
gen_range(start, end) == start..(end - 1)

\* gen_range is called only inside the two nested maps, so an empty range is
\* noticed only when both runs and rolls are at least 1.
roll_dice_panics(runs, rolls, start, end) ==
    runs >= 1 /\ rolls >= 1 /\ gen_range(start, end) = {}

\* The results roll_dice can return when it does not panic.
roll_dice(runs, rolls, start, end) ==
    [1..runs -> [1..rolls -> gen_range(start, end)]]

----------------------------------------------------------------------------
(* lib.rs: the wordlist, passphrase, Entropy *)

\* A wordlist of raw lines, as the caller hands it to Passphraser::wordlist.
Lines(lines) == [eff |-> FALSE, lines |-> lines]

\* The bundled EFF long wordlist (data/eff_long_wordlist.txt) is not
\* materialized: it has one line "<index>\t<word>" for each of the EffLen
\* indices of five digits in 1..6, and the model does not tell its words apart.
EffLen == 7776
EffWord == <<"w">>

builtin_wordlist == [eff |-> TRUE, lines |-> <<>>]

wordlist_len(w) == IF w.eff THEN EffLen ELSE Len(w.lines)

eff_find(rolled_index) ==
    IF \A k \in 0..4 : ((rolled_index \div (10 ^ k)) % 10) \in 1..6
       /\ rolled_index \div (10 ^ 5) = 0
    THEN Some(EffWord)
    ELSE None

RECURSIVE find_map_last(_, _)
find_map_last(lines, rolled_index) ==
    IF lines = <<>> THEN None
    ELSE LET pair == to_pair(to_components(lines[Len(lines)]))
         IN  IF pair.some /\ rolled_index = pair.val[1]
             THEN Some(pair.val[2])
             ELSE find_map_last(SubSeq(lines, 1, Len(lines) - 1), rolled_index)

\* lines.iter().find_map(..): the word of the first line that has a pair
\* whose index is the rolled index.
RECURSIVE find_map(_, _)
find_map(lines, rolled_index) ==
    IF lines = <<>> THEN None
    ELSE LET pair == to_pair(to_components(Head(lines)))
         IN  IF pair.some /\ rolled_index = pair.val[1]
             THEN Some(pair.val[2])
             ELSE find_map(Tail(lines), rolled_index)

rolled_word(w, rolled_index) ==
    IF w.eff THEN eff_find(rolled_index) ELSE find_map(w.lines, rolled_index)

\* One step of passphrase's fold.
fold_roll(w, words, roll) ==
    LET word == rolled_word(w, to_index(roll))
    IN  IF word.some THEN words \o <<word.val>> ELSE words

RECURSIVE fold_rolls(_, _, _)
fold_rolls(w, words, dice_rolls) ==
    IF dice_rolls = <<>> THEN words
    ELSE fold_rolls(w, fold_roll(w, words, Head(dice_rolls)), Tail(dice_rolls))

passphrase(w, dice_rolls) == fold_rolls(w, <<>>, dice_rolls)

\* f32 arithmetic is not modelled: the entropy is the product it stands for,
\* log2(possibilities) * phrase_length.
calc_entropy(possibilities, phrase_length) ==
    [log2 |-> possibilities, times |-> phrase_length]

Entropy_new(possibilities, phrase_length) ==
    [possibilities |-> possibilities,
     entropy |-> calc_entropy(possibilities, phrase_length)]

----------------------------------------------------------------------------
(* The inputs the callers of the model draw from. *)

\* "11111 ab" / "bogus": one entry, and a line without a pair.
CustomLines ==
    << <<"1", "1", "1", "1", "1", " ", "a", "b">>,
       <<"b", "o", "g", "u", "s">> >>

CustomWordlists == {CustomLines}

BuilderPresets == {Default, PascalCase}

----------------------------------------------------------------------------
(* lib.rs: Passphraser. generate is one synchronous call; the model takes  *)
(* it in steps (call, one step per roll, return) and nothing else runs     *)
(* while pc = "generate". roll_dice collects every roll before passphrase  *)
(* folds them; each roll is read once, by one step of the fold, so the     *)
(* model folds a roll in the step that draws it and keeps the accumulator  *)
(* instead of the rolls.                                                   *)

\* The literals of generate's roll_dice(self.length, 5, 1, 6).
DiceRolls == 5
DiceStart == 1
DiceEnd == 6

new(len) == [length |-> len, wordlist |-> builtin_wordlist, preset |-> Default]

length(len) ==
    /\ pc = "idle"
    /\ builder' = [builder EXCEPT !.length = len]
    /\ UNCHANGED <<pc, run, acc, kept, out, call, ret>>

wordlist(list) ==
    /\ pc = "idle"
    /\ builder' = [builder EXCEPT !.wordlist = Lines(list)]
    /\ UNCHANGED <<pc, run, acc, kept, out, call, ret>>

preset_shared(p) ==
    /\ pc = "idle"
    /\ builder' = [builder EXCEPT !.preset = p]
    /\ kept' = IF kept.some THEN Some([kept.val EXCEPT !.preset = p]) ELSE kept
    /\ UNCHANGED <<pc, run, acc, out, call, ret>>

preset(p) ==
    /\ pc = "idle"
    /\ builder' = [builder EXCEPT !.preset = p]
    /\ UNCHANGED <<pc, run, acc, kept, out, call, ret>>

generate_call ==
    /\ pc = "idle"
    /\ pc' = "generate"
    /\ run' = 0
    /\ acc' = <<>>
    /\ UNCHANGED <<builder, kept, out, call, ret>>

\* One iteration of roll_dice's outer map (a roll of DiceRolls dice), folded
\* by passphrase.
generate_roll(roll) ==
    /\ pc = "generate"
    /\ run < builder.length
    /\ roll \in [1..DiceRolls -> gen_range(DiceStart, DiceEnd)]
    /\ run' = run + 1
    /\ acc' = fold_roll(builder.wordlist, acc, roll)
    /\ UNCHANGED <<builder, pc, kept, out, call, ret>>

\* The Passphrase generate builds from the words, a clone of the preset and
\* the entropy.
generate_result ==
    [words |-> acc,
     preset |-> builder.preset,
     entropy |-> Entropy_new(wordlist_len(builder.wordlist), builder.length)]

\* The caller keeps the first Passphrase it is given and drops later ones.
generate_return ==
    /\ pc = "generate"
    /\ run = builder.length
    /\ pc' = "idle"
    /\ run' = 0
    /\ acc' = <<>>
    /\ kept' = IF kept.some THEN kept ELSE Some(generate_result)
    /\ UNCHANGED <<builder, out, call, ret>>

Passphrase_format ==
    /\ pc = "idle"
    /\ kept.some
    /\ out' = Some([preset |-> kept.val.preset, text |-> format(kept.val)])
    /\ UNCHANGED <<builder, pc, run, acc, kept, call, ret>>

Passphrase_format_with(p) ==
    /\ pc = "idle"
    /\ kept.some
    /\ out' = Some([preset |-> p, text |-> format_with(kept.val, p)])
    /\ UNCHANGED <<builder, pc, run, acc, kept, call, ret>>

NoCall == [fn |-> "none"]

Init ==
    /\ builder \in {new(len) : len \in 0..MaxLength}
    /\ pc = "idle"
    /\ run = 0
    /\ acc = <<>>
    /\ kept = None
    /\ out = None
    /\ call = NoCall
    /\ ret = None

Next ==
    \/ \E len \in 0..MaxLength : length(len)
    \/ \E list \in CustomWordlists : wordlist(list)
    \/ \E p \in BuilderPresets : preset(p)
    \/ generate_call
    \/ \E roll \in [1..DiceRolls -> gen_range(DiceStart, DiceEnd)] : generate_roll(roll)
    \/ generate_return
    \/ Passphrase_format
    \/ \E p \in BuilderPresets : Passphrase_format_with(p)

Spec == Init /\ [][Next]_vars

----------------------------------------------------------------------------
(* Single calls of the free functions and of the formatter: the arguments  *)
(* are drawn in the initial state, and one action makes the call.          *)

\* Every sequence over S of at most n elements.
SeqsUpTo(S, n) == UNION {[1..k -> S] : k \in 0..n}

CallInit(calls) ==
    /\ call \in calls
    /\ pc = "called"
    /\ ret = None
    /\ builder = new(0)
    /\ run = 0
    /\ acc = <<>>
    /\ kept = None
    /\ out = None

Return(v) ==
    /\ pc' = "returned"
    /\ ret' = Some(v)
    /\ UNCHANGED <<builder, run, acc, kept, out, call>>

Panic ==
    /\ pc' = "panicked"
    /\ ret' = None
    /\ UNCHANGED <<builder, run, acc, kept, out, call>>

(* to_index *)

IndexCalls == {[fn |-> "to_index", ns |-> ns] : ns \in SeqsUpTo(0..9, MaxDigits)}

to_index_call ==
    /\ pc = "called"
    /\ call.fn = "to_index"
    /\ Return(to_index(call.ns))

InitIndex == CallInit(IndexCalls)
NextIndex == to_index_call
SpecIndex == InitIndex /\ [][NextIndex]_vars

(* roll_dice *)

RollCalls ==
    {[fn |-> "roll_dice", runs |-> runs, rolls |-> rolls, start |-> start, end |-> end] :
        runs \in 0..MaxRuns, rolls \in 0..MaxRuns, start \in 0..MaxFace, end \in 0..MaxFace}

roll_dice_call ==
    /\ pc = "called"
    /\ call.fn = "roll_dice"
    /\ IF roll_dice_panics(call.runs, call.rolls, call.start, call.end)
       THEN Panic
       ELSE \E result \in roll_dice(call.runs, call.rolls, call.start, call.end) :
                Return(result)

InitRoll == CallInit(RollCalls)
NextRoll == roll_dice_call
SpecRoll == InitRoll /\ [][NextRoll]_vars

(* to_components / to_pair on one line, and passphrase *)

LineChars == {"1", "2", "a", " ", "\t", "+"}

\* "11 ab" / "11 ba" / "12 ba" / "21 ab zz" / "x1 ab" / "12"
LinePool ==
    { <<"1", "1", " ", "a", "b">>,
      <<"1", "1", " ", "b", "a">>,
      <<"1", "2", " ", "b", "a">>,
      <<"2", "1", "\t", "a", "b", " ", "z", "z">>,
      <<"x", "1", " ", "a", "b">>,
      <<"1", "2">> }

RollPool == {<<1, 1>>, <<1, 2>>, <<2, 1>>}

PairCalls == {[fn |-> "to_pair", line |-> line] : line \in SeqsUpTo(LineChars, MaxLineLen)}

PassphraseCalls ==
    {[fn |-> "passphrase", lines |-> lines, dice_rolls |-> dice_rolls] :
        lines \in SeqsUpTo(LinePool, MaxLines), dice_rolls \in SeqsUpTo(RollPool, MaxRuns)}

\* The closure of passphrase's find_map, on one line.
to_pair_call ==
    /\ pc = "called"
    /\ call.fn = "to_pair"
    /\ Return(to_pair(to_components(call.line)))

passphrase_call ==
    /\ pc = "called"
    /\ call.fn = "passphrase"
    /\ Return(passphrase(Lines(call.lines), call.dice_rolls))

InitWordlist == CallInit(PairCalls \cup PassphraseCalls)
NextWordlist == to_pair_call \/ passphrase_call
SpecWordlist == InitWordlist /\ [][NextWordlist]_vars

(* Passphrase::format / format_with *)

\* "ab" / "Ba" / "1a" / "z"
WordPool == { <<"a", "b">>, <<"B", "a">>, <<"1", "a">>, <<"z">> }

DelimiterPool == {None, Some(<<".">>), Some(<<>>), Some(<<"-", "-">>)}

AllPresets ==
    {PascalCase, KebabCase, SnakeCase, Default}
        \cup {Arbitrary(c, d) : c \in BOOLEAN, d \in DelimiterPool}

Passphrases(presets) ==
    {[words |-> words, preset |-> p, entropy |-> Entropy_new(EffLen, Len(words))] :
        words \in SeqsUpTo(WordPool, MaxWords), p \in presets}

FormatCalls ==
    {[fn |-> "format", self |-> self] : self \in Passphrases(AllPresets)}
        \cup {[fn |-> "format_with", self |-> self, preset |-> p] :
                 self \in Passphrases({Default, KebabCase}), p \in AllPresets}

format_call ==
    /\ pc = "called"
    /\ call.fn = "format"
    /\ Return(format(call.self))

format_with_call ==
    /\ pc = "called"
    /\ call.fn = "format_with"
    /\ Return(format_with(call.self, call.preset))

InitFormat == CallInit(FormatCalls)
NextFormat == format_call \/ format_with_call
SpecFormat == InitFormat /\ [][NextFormat]_vars

----------------------------------------------------------------------------
(* What the properties are stated with: tokens, numerals and entries,      *)
(* defined by position rather than by the code's folds.                    *)

\* The value of a sequence of numbers read as a base-10 numeral.
RECURSIVE Numeral(_)
Numeral(ns) ==
    IF ns = <<>> THEN 0
    ELSE ns[Len(ns)] + 10 * Numeral(SubSeq(ns, 1, Len(ns) - 1))

\* The positions where a whitespace-separated token of the line starts.
TokenStarts(line) ==
    {i \in 1..Len(line) :
        /\ ~is_ascii_whitespace(line[i])
        /\ (i = 1 \/ is_ascii_whitespace(line[i - 1]))}

TokenCount(line) == Cardinality(TokenStarts(line))

\* The k-th token of the line, for k in 1..TokenCount(line).
Token(line, k) ==
    LET start == CHOOSE i \in TokenStarts(line) :
                     Cardinality({j \in TokenStarts(line) : j <= i}) = k
        last  == CHOOSE e \in start..Len(line) :
                     /\ \A j \in start..e : ~is_ascii_whitespace(line[j])
                     /\ (e = Len(line) \/ is_ascii_whitespace(line[e + 1]))
    IN  SubSeq(line, start, last)

\* The decimal digits of a token that is a non-negative integer (one "+"
\* may precede them), and whether the token is one.
DigitsOf(token) == IF token # <<>> /\ token[1] = "+" THEN Tail(token) ELSE token

IsInteger(token) ==
    /\ DigitsOf(token) # <<>>
    /\ \A i \in 1..Len(DigitsOf(token)) : is_ascii_digit(DigitsOf(token)[i])

IntegerOf(token) ==
    Numeral([i \in 1..Len(DigitsOf(token)) |-> to_digit(DigitsOf(token)[i])])

\* The lines that are entries: at least two tokens, the first an integer.
IsEntry(line) == TokenCount(line) >= 2 /\ IsInteger(Token(line, 1))

\* The same with exactly two tokens.
IsTwoTokenEntry(line) == TokenCount(line) = 2 /\ IsInteger(Token(line, 1))

\* The number of entries of a wordlist.
EntryCount(w) ==
    IF w.eff THEN EffLen
    ELSE Cardinality({i \in 1..Len(w.lines) : IsEntry(w.lines[i])})

\* The positions of the lines whose entry has this index.
Hits(lines, index) ==
    {i \in 1..Len(lines) : IsEntry(lines[i]) /\ IntegerOf(Token(lines[i], 1)) = index}

\* What one roll contributes: the word of the first entry with its index.
Contribution(lines, roll) ==
    LET hits == Hits(lines, Numeral(roll))
    IN  IF hits = {} THEN <<>>
        ELSE <<Token(lines[CHOOSE i \in hits : \A j \in hits : i <= j], 2)>>

RECURSIVE ExpectedWords(_, _, _)
ExpectedWords(lines, dice_rolls, n) ==
    IF n = 0 THEN <<>>
    ELSE ExpectedWords(lines, dice_rolls, n - 1) \o Contribution(lines, dice_rolls[n])

\* The table of the presets: delimiter and capitalization.
DelimiterOf(p) ==
    CASE p.kind = "PascalCase" -> <<>>
      [] p.kind = "KebabCase" -> <<"-">>
      [] p.kind = "SnakeCase" -> <<"_">>
      [] p.kind = "Default" -> <<" ">>
      [] p.kind = "Arbitrary" -> IF p.delimiter.some THEN p.delimiter.val ELSE <<" ">>

CapitalizeOf(p) ==
    CASE p.kind = "PascalCase" -> TRUE
      [] p.kind \in {"KebabCase", "SnakeCase", "Default"} -> FALSE
      [] p.kind = "Arbitrary" -> p.capitalize

Capital(word) ==
    [i \in 1..Len(word) |-> IF i = 1 THEN to_uppercase(word[1])[1] ELSE word[i]]

RECURSIVE Joined(_, _, _, _)
Joined(words, delimiter, capitalize, n) ==
    IF n = 0 THEN <<>>
    ELSE (IF n = 1 THEN <<>> ELSE Joined(words, delimiter, capitalize, n - 1) \o delimiter)
         \o (IF capitalize THEN Capital(words[n]) ELSE words[n])

ExpectedText(words, p) == Joined(words, DelimiterOf(p), CapitalizeOf(p), Len(words))

SixFaces == 1..6

----------------------------------------------------------------------------
(* The properties. *)

\* C1: while generate draws the roll of a word, every roll of five dice with
\* faces 1..6 can be the one drawn (so every index 11111..66666 of the
\* wordlist can be selected).
C1_EveryFaceCanBeRolled ==
    (pc = "generate" /\ run < builder.length)
        => \A roll \in [1..DiceRolls -> SixFaces] : ENABLED generate_roll(roll)

\* C2: passphrase returns, roll by roll and in roll order, the word of the
\* first entry whose index is to_index(roll), and nothing for a roll without
\* such an entry; the result is no longer than the rolls.
C2_PassphraseFirstMatchInOrder ==
    (pc = "returned" /\ call.fn = "passphrase")
        => /\ ret.val = ExpectedWords(call.lines, call.dice_rolls, Len(call.dice_rolls))
           /\ Len(ret.val) <= Len(call.dice_rolls)

\* C2 witness: a wordlist that lists one index twice with different words,
\* a roll that selects it and a roll that selects nothing.
C2_Witness ==
    /\ pc = "returned" /\ call.fn = "passphrase"
    /\ call.lines = << <<"1", "1", " ", "a", "b">>, <<"1", "1", " ", "b", "a">> >>
    /\ call.dice_rolls = << <<1, 2>>, <<1, 1>> >>
    /\ ret.val = << <<"a", "b">> >>

\* C3 as stated: a line yields an entry only when it has exactly two tokens
\* and the first is an integer, and only such a line supplies a word to
\* passphrase.
C3_OnlyExactlyTwoTokens ==
    /\ (pc = "returned" /\ call.fn = "to_pair")
           => (ret.val.some <=> IsTwoTokenEntry(call.line))
    /\ (pc = "returned" /\ call.fn = "passphrase")
           => \A k \in 1..Len(ret.val) :
                  \E i \in 1..Len(call.lines) :
                      IsTwoTokenEntry(call.lines[i]) /\ Token(call.lines[i], 2) = ret.val[k]

\* C3 amended: a line yields an entry exactly when it has at least two tokens
\* and the first is an integer; the entry is the value of the first token
\* and the second token; only such a line supplies a word to passphrase.
C3_PairFromFirstTwoTokens ==
    /\ (pc = "returned" /\ call.fn = "to_pair")
           => /\ ret.val.some <=> IsEntry(call.line)
              /\ ret.val.some =>
                     ret.val.val = <<IntegerOf(Token(call.line, 1)), Token(call.line, 2)>>
    /\ (pc = "returned" /\ call.fn = "passphrase")
           => \A k \in 1..Len(ret.val) :
                  \E i \in 1..Len(call.lines) :
                      IsEntry(call.lines[i]) /\ Token(call.lines[i], 2) = ret.val[k]

\* C3 witness: a line of three tokens has been parsed into an entry.
C3_Witness ==
    /\ pc = "returned" /\ call.fn = "to_pair"
    /\ TokenCount(call.line) = 3
    /\ ret.val.some

\* C4: the possibilities of the Passphrase generate returns are the number
\* of entries of the builder's wordlist.
C4_PossibilitiesCountEntries ==
    (pc = "generate" /\ run = builder.length)
        => generate_result.entropy.possibilities = EntryCount(builder.wordlist)

\* C5: roll_dice panics whenever low = high, whatever runs and rolls are.
C5_EmptyRangeAlwaysPanics ==
    (call.fn = "roll_dice" /\ call.start = call.end /\ pc # "called")
        => pc = "panicked"

\* C6: format_with returns the words in order, joined by the preset's
\* delimiter and capitalized when the preset says so; format is format_with
\* of the stored preset.
C6_FormatByPresetTable ==
    /\ (pc = "returned" /\ call.fn = "format_with")
           => ret.val = ExpectedText(call.self.words, call.preset)
    /\ (pc = "returned" /\ call.fn = "format")
           => ret.val = ExpectedText(call.self.words, call.self.preset)

\* C6 witness: "ab", "z" formatted with Arbitrary{capitalize, no delimiter}
\* by a Passphrase whose own preset is KebabCase gives "Ab Z".
C6_Witness ==
    /\ pc = "returned" /\ call.fn = "format_with"
    /\ call.self.words = << <<"a", "b">>, <<"z">> >>
    /\ call.self.preset = KebabCase
    /\ call.preset = Arbitrary(TRUE, None)
    /\ ret.val = <<"A", "b", " ", "Z">>

\* C7: to_index of a sequence of decimal digits is the base-10 numeral they
\* spell, 0 for the empty sequence; to_index([1,1,1]) = 111 and
\* to_index([5,2,3,1,6]) = 52316.
C7_ToIndexIsNumeral ==
    (pc = "returned" /\ call.fn = "to_index")
        => /\ ret.val = Numeral(call.ns)
           /\ call.ns = <<>> => ret.val = 0
           /\ call.ns = <<1, 1, 1>> => ret.val = 111
           /\ to_index(<<5, 2, 3, 1, 6>>) = 52316

\* C7 witness: to_index has returned for a sequence that reads differently
\* in the two directions.
C7_Witness ==
    /\ pc = "returned" /\ call.fn = "to_index"
    /\ call.ns = <<5, 2, 3>>
    /\ ret.val = 523

\* C8: when roll_dice returns for low < high, the result has runs sequences
\* of rolls elements each, every element in [low, high).
C8_RollShapeAndRange ==
    (pc = "returned" /\ call.fn = "roll_dice" /\ call.start < call.end)
        => /\ Len(ret.val) = call.runs
           /\ \A i \in 1..Len(ret.val) :
                  /\ Len(ret.val[i]) = call.rolls
                  /\ \A j \in 1..Len(ret.val[i]) :
                         call.start <= ret.val[i][j] /\ ret.val[i][j] < call.end

\* C8 witness: two runs of two rolls over [0, 2) that show both faces.
C8_Witness ==
    /\ pc = "returned" /\ call.fn = "roll_dice"
    /\ call.runs = 2 /\ call.rolls = 2 /\ call.start = 0 /\ call.end = 2
    /\ ret.val = << <<0, 1>>, <<1, 0>> >>

\* C9: a Passphrase the caller holds is never changed by a later call, and
\* format / format_with give the same string for the same preset again.
C9_PassphraseNeverChanges ==
    [][/\ kept.some => kept' = kept
       /\ (out.some /\ out'.some /\ out'.val.preset = out.val.preset)
              => out'.val.text = out.val.text]_vars

\* C9 witness: a Passphrase is held and has been formatted, and the builder
\* has since been given another length, wordlist and preset.
C9_Witness ==
    /\ kept.some /\ out.some /\ pc = "idle"
    /\ kept.val.words # <<>>
    /\ builder.preset # kept.val.preset
    /\ out.val.preset # kept.val.preset
    /\ builder.length # kept.val.entropy.entropy.times
    /\ wordlist_len(builder.wordlist) # kept.val.entropy.possibilities

\* C10: the entropy of the Passphrase generate returns is computed for the
\* number of words the Passphrase holds.
C10_EntropyForWordsHeld ==
    (pc = "generate" /\ run = builder.length)
        => generate_result.entropy.entropy
               = calc_entropy(generate_result.entropy.possibilities,
                              Len(generate_result.words))

====
